---- MODULE Spec2Model ----
(***************************************************************************)
(* Bonding-curve edition minting (programs/bonding-curve).                 *)
(*                                                                         *)
(* Two variants of the on-chain program exist in the repository:           *)
(*   "lib"       src/lib.rs                (four curve kinds, lookup table)*)
(*   "metaplex"  src/lib_with_metaplex.rs  (linear only, metadata CPIs)    *)
(* One deployment runs one variant, built with or without Rust's integer   *)
(* overflow checks; both are fixed by Init.  The model follows the         *)
(* bonding_curve account of one collection (a PDA seeded by the collection *)
(* mint) and the bezier_lookup account seeded by that curve's address.     *)
(*                                                                         *)
(* u64 and u32 are modelled with U64Bits and U32Bits bits, so that wrap    *)
(* and overflow happen on values the model checker can hold.               *)
(***************************************************************************)
EXTENDS Integers, Sequences, FiniteSets, TLC

\* ---------------------------------------------------------------- bounds
U64Bits == 24
U32Bits == 7
MaxSupplyBound == 3
NumTxs == 2
MaxEdition == 9
MaxPrices == 4

U64Max == 2^U64Bits - 1
U32Max == 2^U32Bits - 1
Half == 2^(U64Bits - 1)

\* The divisor of the Exponential and Bezier arms of calculate_price.
BasisPoints == 10000

\* ---------------------------------------------------------------- inputs
Signers == {"alice", "bob"}
CurveTypes == {"Linear", "Exponential", "Logarithmic", "Bezier"}
BasePrices == {1000, Half}
Increments == {100, U64Max}
MaxSupplies == {1, MaxSupplyBound}

\* Option<T>: None is the empty sequence, Some(x) a sequence of one element.
None == <<>>
Some(x) == <<x>>
unwrap_or(opt, d) == IF opt = None THEN d ELSE opt[1]

\* (bezier_min_price, bezier_max_price) arguments of initialize_curve; the
\* kinds that never read the two fields are created without them.
BezierArgs(curve_type) ==
  IF curve_type = "Bezier"
  THEN { <<None, None>>, <<Some(1000), Some(1100)>>, <<Some(1100), Some(1000)>> }
  ELSE { <<None, None>> }

\* (new_base_price, new_price_increment, new_max_supply) arguments of
\* update_curve: nothing, each field alone, and all three with a low and
\* with a high cap.
UpdateArgs ==
  { <<None, None, None>>, <<Some(Half), None, None>>, <<None, Some(100), None>>,
    <<None, None, Some(1)>>, <<None, None, Some(MaxSupplyBound)>>,
    <<Some(Half), Some(100), Some(0)>>, <<Some(1000), Some(U64Max), Some(MaxSupplyBound)>> }

VARIABLES
  variant,          \* which program is deployed: "lib" or "metaplex"
  overflow_checks,  \* whether the build traps on integer overflow
  bonding_curve,    \* the BondingCurve account
  bezier_lookup,    \* the BezierPriceLookup account
  paid,             \* lamports transferred to the authority, one entry per committed transfer
  issued,           \* tokens issued by committed token::mint_to calls
  last,             \* the last instruction that ended: its arguments and outcome
  in_flight,        \* the mint transactions the runtime is executing, by slot
  account_lock      \* the slot holding the write lock of bonding_curve, or 0

vars == <<variant, overflow_checks, bonding_curve, bezier_lookup, paid, issued, last,
          in_flight, account_lock>>

\* ------------------------------------------------------------ arithmetic
\* Result<u64>: the value, or the error / abort that ends the instruction.
Ok(v) == [ok |-> TRUE, val |-> v, err |-> "Ok"]
Err(e) == [ok |-> FALSE, val |-> 0, err |-> e]

\* u64::wrapping_add in the place of checked_add.
wrapping_add(a, b) == Some((a + b) % (U64Max + 1))

\* u64::checked_add, u64::checked_mul, u64::checked_sub: None on overflow.
\* The product is never formed when it does not fit.
checked_add(a, b) == IF a + b > U64Max THEN None ELSE Some(a + b)
checked_mul(a, b) == IF a # 0 /\ b > U64Max \div a THEN None ELSE Some(a * b)
checked_sub(a, b) == IF a < b THEN None ELSE Some(a - b)

\* u32::checked_mul.
checked_mul_u32(a, b) == IF a # 0 /\ b > U32Max \div a THEN None ELSE Some(a * b)

\* `x as u32` on a u64: truncation to the low bits.
as_u32(x) == x % (U32Max + 1)

\* Plain `a + b` and `a - b` on u64, and `a + b` on u32: a panic when the
\* build checks overflow, two's complement wrap when it does not.
u64_add(a, b) ==
  IF a + b <= U64Max THEN Ok(a + b)
  ELSE IF overflow_checks THEN Err("Panic") ELSE Ok((a + b) % (U64Max + 1))
u64_sub(a, b) ==
  IF a >= b THEN Ok(a - b)
  ELSE IF overflow_checks THEN Err("Panic") ELSE Ok((a - b) % (U64Max + 1))
u32_add(a, b) ==
  IF a + b <= U32Max THEN Ok(a + b)
  ELSE IF overflow_checks THEN Err("Panic") ELSE Ok((a + b) % (U32Max + 1))

\* `(edition as f64).log2() as u64`: floor(log2(edition)); log2(0) is
\* -infinity, which the saturating cast turns into 0.
RECURSIVE log2_floor(_)
log2_floor(n) == IF n <= 1 THEN 0 ELSE 1 + log2_floor(n \div 2)

\* ------------------------------------------------------------- accounts
\* BondingCurve (collection_mint and bump are fixed by the PDA and left out).
\* The metaplex variant's account has no curve_type and no bezier fields;
\* its records carry "Linear" and zeros there, which its handlers never read.
NoCurve ==
  [initialized |-> FALSE, authority |-> "none", curve_type |-> "Linear",
   base_price |-> 0, price_increment |-> 0, max_supply |-> 0,
   current_supply |-> 0, total_volume |-> 0,
   bezier_min_price |-> 0, bezier_max_price |-> 0]

\* BezierPriceLookup (bonding_curve and bump are fixed by the PDA).
NoLookup == [initialized |-> FALSE, prices |-> <<>>]

\* ---------------------------------------------------------------- price
\* calculate_price with the Linear arm multiplying by the edition number
\* instead of by edition - 1.
calculate_price_from_edition(curve_type, base_price, price_increment, edition, bezier_min_price, bezier_max_price, max_supply) ==
  CASE curve_type = "Linear" ->
         LET step == checked_mul(edition, price_increment) IN
         IF step = None THEN Err("Panic") ELSE
         LET price == checked_add(base_price, step[1]) IN
         IF price = None THEN Err("Panic") ELSE Ok(price[1])
    [] curve_type = "Exponential" ->
         LET e1 == u64_sub(edition, 1) IN
         IF ~e1.ok THEN Err("Panic") ELSE
         LET prod == checked_mul(price_increment, e1.val) IN
         IF prod = None THEN Err("Panic") ELSE
         LET multiplier == prod[1] \div BasisPoints
             growth == checked_mul(base_price, multiplier) IN
         IF growth = None THEN Err("Panic") ELSE
         LET price == checked_add(base_price, growth[1]) IN
         IF price = None THEN Err("Panic") ELSE Ok(price[1])
    [] curve_type = "Logarithmic" ->
         LET log_edition == log2_floor(edition)
             step == checked_mul(price_increment, log_edition) IN
         IF step = None THEN Err("Panic") ELSE
         LET price == checked_add(base_price, step[1]) IN
         IF price = None THEN Err("Panic") ELSE Ok(price[1])
    [] curve_type = "Bezier" ->
         IF max_supply = 0 THEN Err("Panic") ELSE
         LET progress == (edition * BasisPoints) \div max_supply
             price_range == checked_sub(bezier_max_price, bezier_min_price) IN
         IF price_range = None THEN Err("Panic") ELSE
         LET scaled == checked_mul(price_range[1], progress) IN
         IF scaled = None THEN Err("Panic") ELSE
         LET price_delta == scaled[1] \div BasisPoints
             price == checked_add(bezier_min_price, price_delta) IN
         IF price = None THEN Err("Panic") ELSE Ok(price[1])

\* calculate_price with the Bezier arm measuring progress from edition - 1,
\* as the other arms count their steps.
calculate_price_bezier_from_zero(curve_type, base_price, price_increment, edition, bezier_min_price, bezier_max_price, max_supply) ==
  CASE curve_type = "Linear" ->
         LET e1 == u64_sub(edition, 1) IN
         IF ~e1.ok THEN Err("Panic") ELSE
         LET step == checked_mul(e1.val, price_increment) IN
         IF step = None THEN Err("Panic") ELSE
         LET price == checked_add(base_price, step[1]) IN
         IF price = None THEN Err("Panic") ELSE Ok(price[1])
    [] curve_type = "Exponential" ->
         LET e1 == u64_sub(edition, 1) IN
         IF ~e1.ok THEN Err("Panic") ELSE
         LET prod == checked_mul(price_increment, e1.val) IN
         IF prod = None THEN Err("Panic") ELSE
         LET multiplier == prod[1] \div BasisPoints
             growth == checked_mul(base_price, multiplier) IN
         IF growth = None THEN Err("Panic") ELSE
         LET price == checked_add(base_price, growth[1]) IN
         IF price = None THEN Err("Panic") ELSE Ok(price[1])
    [] curve_type = "Logarithmic" ->
         LET log_edition == log2_floor(edition)
             step == checked_mul(price_increment, log_edition) IN
         IF step = None THEN Err("Panic") ELSE
         LET price == checked_add(base_price, step[1]) IN
         IF price = None THEN Err("Panic") ELSE Ok(price[1])
    [] curve_type = "Bezier" ->
         IF max_supply = 0 THEN Err("Panic") ELSE
         LET progress == ((IF edition = 0 THEN 0 ELSE edition - 1) * BasisPoints) \div max_supply
             price_range == checked_sub(bezier_max_price, bezier_min_price) IN
         IF price_range = None THEN Err("Panic") ELSE
         LET scaled == checked_mul(price_range[1], progress) IN
         IF scaled = None THEN Err("Panic") ELSE
         LET price_delta == scaled[1] \div BasisPoints
             price == checked_add(bezier_min_price, price_delta) IN
         IF price = None THEN Err("Panic") ELSE Ok(price[1])

\* calculate_price: every unwrap() of a None, and the division by zero of
\* the Bezier arm, abort the instruction.
calculate_price(curve_type, base_price, price_increment, edition, bezier_min_price, bezier_max_price, max_supply) ==
  CASE curve_type = "Linear" ->
         LET e1 == u64_sub(edition, 1) IN
         IF ~e1.ok THEN Err("Panic") ELSE
         LET step == checked_mul(e1.val, price_increment) IN
         IF step = None THEN Err("Panic") ELSE
         LET price == checked_add(base_price, step[1]) IN
         IF price = None THEN Err("Panic") ELSE Ok(price[1])
    [] curve_type = "Exponential" ->
         LET e1 == u64_sub(edition, 1) IN
         IF ~e1.ok THEN Err("Panic") ELSE
         LET prod == checked_mul(price_increment, e1.val) IN
         IF prod = None THEN Err("Panic") ELSE
         LET multiplier == prod[1] \div BasisPoints
             growth == checked_mul(base_price, multiplier) IN
         IF growth = None THEN Err("Panic") ELSE
         LET price == checked_add(base_price, growth[1]) IN
         IF price = None THEN Err("Panic") ELSE Ok(price[1])
    [] curve_type = "Logarithmic" ->
         LET log_edition == log2_floor(edition)
             step == checked_mul(price_increment, log_edition) IN
         IF step = None THEN Err("Panic") ELSE
         LET price == checked_add(base_price, step[1]) IN
         IF price = None THEN Err("Panic") ELSE Ok(price[1])
    [] curve_type = "Bezier" ->
         IF max_supply = 0 THEN Err("Panic") ELSE
         LET progress == (edition * BasisPoints) \div max_supply
             price_range == checked_sub(bezier_max_price, bezier_min_price) IN
         IF price_range = None THEN Err("Panic") ELSE
         LET scaled == checked_mul(price_range[1], progress) IN
         IF scaled = None THEN Err("Panic") ELSE
         LET price_delta == scaled[1] \div BasisPoints
             price == checked_add(bezier_min_price, price_delta) IN
         IF price = None THEN Err("Panic") ELSE Ok(price[1])

\* The linear price of the metaplex variant (mint_edition and get_price):
\* the increment is cast to u32 and the product is formed in u32.
metaplex_price(curve) ==
  LET step == checked_mul_u32(curve.current_supply, as_u32(curve.price_increment)) IN
  IF step = None THEN Err("ArithmeticOverflow") ELSE
  LET price == checked_add(curve.base_price, step[1]) IN
  IF price = None THEN Err("ArithmeticOverflow") ELSE Ok(price[1])

\* ------------------------------------------------------- instructions
\* What one instruction did inside its transaction: its result, the
\* account as the handler left it in memory, the price it quoted, the
\* transfers and issuances its CPIs performed, and the CPIs it invoked.
Outcome(result, curve, price, transfers, issues, cpis) ==
  [result |-> result, curve |-> curve, price |-> price,
   transfers |-> transfers, issues |-> issues, cpis |-> cpis]

\* The CPIs of a mint, in the order the handlers invoke them.  An attempt
\* names the collaborator that fails in it ("none": all succeed); the ones
\* after it are never invoked.
LibCpis == <<"transfer", "mint_to">>
MetaplexCpis == <<"transfer", "mint_to", "create_metadata", "create_master_edition">>

\* Payment, issuance and accounting of a mint, after the price is known:
\* the transfer to the authority, token::mint_to, then the two updates.
settle(curve, current_price, failing) ==
  IF failing = "transfer"
  THEN Outcome("TransferFailed", curve, current_price, <<>>, 0, <<"transfer">>)
  ELSE IF failing = "mint_to"
  THEN Outcome("MintToFailed", curve, current_price, <<current_price>>, 0, LibCpis)
  ELSE LET supply == u32_add(curve.current_supply, 1)
           volume == u64_add(curve.total_volume, current_price)
       IN IF ~supply.ok \/ ~volume.ok
          THEN Outcome("Panic", curve, current_price, <<current_price>>, 1, LibCpis)
          ELSE Outcome("Ok",
                       [curve EXCEPT !.current_supply = supply.val,
                                     !.total_volume = volume.val],
                       current_price, <<current_price>>, 1, LibCpis)

initialize_curve(authority, curve_type, base_price, price_increment, max_supply, bezier_min_price, bezier_max_price) ==
  Outcome("Ok",
          [initialized |-> TRUE, authority |-> authority, curve_type |-> curve_type,
           base_price |-> base_price, price_increment |-> price_increment,
           max_supply |-> max_supply, current_supply |-> 0, total_volume |-> 0,
           bezier_min_price |-> unwrap_or(bezier_min_price, base_price),
           bezier_max_price |-> unwrap_or(bezier_max_price, base_price)],
          0, <<>>, 0, <<>>)

\* mint_edition with the cap test off by one (<= for <).
mint_edition_cap_inclusive(curve, failing) ==
  IF ~(curve.current_supply <= curve.max_supply)
  THEN Outcome("MaxSupplyReached", curve, 0, <<>>, 0, <<>>)
  ELSE LET current_price ==
             calculate_price(curve.curve_type, curve.base_price, curve.price_increment,
                             curve.current_supply + 1, curve.bezier_min_price,
                             curve.bezier_max_price, curve.max_supply)
       IN IF ~current_price.ok
          THEN Outcome(current_price.err, curve, 0, <<>>, 0, <<>>)
          ELSE settle(curve, current_price.val, failing)

mint_edition(curve, failing) ==
  IF ~(curve.current_supply < curve.max_supply)
  THEN Outcome("MaxSupplyReached", curve, 0, <<>>, 0, <<>>)
  ELSE LET current_price ==
             calculate_price(curve.curve_type, curve.base_price, curve.price_increment,
                             curve.current_supply + 1, curve.bezier_min_price,
                             curve.bezier_max_price, curve.max_supply)
       IN IF ~current_price.ok
          THEN Outcome(current_price.err, curve, 0, <<>>, 0, <<>>)
          ELSE settle(curve, current_price.val, failing)

\* update_curve without the test of the new cap against current_supply.
update_curve_any_cap(curve, new_base_price, new_price_increment, new_max_supply) ==
  LET c1 == IF new_base_price = None THEN curve
            ELSE [curve EXCEPT !.base_price = new_base_price[1]]
      c2 == IF new_price_increment = None THEN c1
            ELSE [c1 EXCEPT !.price_increment = new_price_increment[1]]
  IN IF new_max_supply = None THEN Outcome("Ok", c2, 0, <<>>, 0, <<>>)
     ELSE Outcome("Ok", [c2 EXCEPT !.max_supply = new_max_supply[1]], 0, <<>>, 0, <<>>)

\* update_curve storing a zero price for a base_price that was not supplied.
update_curve_resets_omitted(curve, new_base_price, new_price_increment, new_max_supply) ==
  LET c1 == [curve EXCEPT !.base_price = unwrap_or(new_base_price, 0)]
      c2 == IF new_price_increment = None THEN c1
            ELSE [c1 EXCEPT !.price_increment = new_price_increment[1]]
  IN IF new_max_supply = None THEN Outcome("Ok", c2, 0, <<>>, 0, <<>>)
     ELSE IF ~(new_max_supply[1] >= c2.current_supply)
     THEN Outcome("InvalidMaxSupply", c2, 0, <<>>, 0, <<>>)
     ELSE Outcome("Ok", [c2 EXCEPT !.max_supply = new_max_supply[1]], 0, <<>>, 0, <<>>)

update_curve(curve, new_base_price, new_price_increment, new_max_supply) ==
  LET c1 == IF new_base_price = None THEN curve
            ELSE [curve EXCEPT !.base_price = new_base_price[1]]
      c2 == IF new_price_increment = None THEN c1
            ELSE [c1 EXCEPT !.price_increment = new_price_increment[1]]
  IN IF new_max_supply = None THEN Outcome("Ok", c2, 0, <<>>, 0, <<>>)
     ELSE IF ~(new_max_supply[1] >= c2.current_supply)
     THEN Outcome("InvalidMaxSupply", c2, 0, <<>>, 0, <<>>)
     ELSE Outcome("Ok", [c2 EXCEPT !.max_supply = new_max_supply[1]], 0, <<>>, 0, <<>>)

\* close_curve without the emptiness test.
close_curve_any_supply(curve) == Outcome("Ok", curve, 0, <<>>, 0, <<>>)

close_curve(curve) ==
  IF ~(curve.current_supply = 0)
  THEN Outcome("CurveNotEmpty", curve, 0, <<>>, 0, <<>>)
  ELSE Outcome("Ok", curve, 0, <<>>, 0, <<>>)

\* mint_edition_with_bezier_lookup reading the table at the incremented supply.
mint_edition_with_bezier_lookup_next_index(curve, lookup, failing) ==
  IF ~(curve.current_supply < curve.max_supply)
  THEN Outcome("MaxSupplyReached", curve, 0, <<>>, 0, <<>>)
  ELSE LET edition_idx == curve.current_supply + 1 IN
       IF ~(edition_idx + 1 \in DOMAIN lookup.prices)
       THEN Outcome("PriceNotFound", curve, 0, <<>>, 0, <<>>)
       ELSE settle(curve, lookup.prices[edition_idx + 1], failing)

\* mint_edition_with_bezier_lookup charging base_price for an edition the
\* table has no entry for.
mint_edition_with_bezier_lookup_default_price(curve, lookup, failing) ==
  IF ~(curve.current_supply < curve.max_supply)
  THEN Outcome("MaxSupplyReached", curve, 0, <<>>, 0, <<>>)
  ELSE LET edition_idx == curve.current_supply IN
       IF ~(edition_idx + 1 \in DOMAIN lookup.prices)
       THEN settle(curve, curve.base_price, failing)
       ELSE settle(curve, lookup.prices[edition_idx + 1], failing)

mint_edition_with_bezier_lookup(curve, lookup, failing) ==
  IF ~(curve.current_supply < curve.max_supply)
  THEN Outcome("MaxSupplyReached", curve, 0, <<>>, 0, <<>>)
  ELSE LET edition_idx == curve.current_supply IN
       IF ~(edition_idx + 1 \in DOMAIN lookup.prices)
       THEN Outcome("PriceNotFound", curve, 0, <<>>, 0, <<>>)
       ELSE settle(curve, lookup.prices[edition_idx + 1], failing)

\* initialize_bezier_lookup with the length test strict (< for <=).
initialize_bezier_lookup_strict(curve, prices) ==
  IF ~(as_u32(Len(prices)) < curve.max_supply)
  THEN "InvalidPriceLookup"
  ELSE "Ok"

initialize_bezier_lookup(curve, prices) ==
  IF ~(as_u32(Len(prices)) <= curve.max_supply)
  THEN "InvalidPriceLookup"
  ELSE "Ok"

\* InitializeBezierLookup without its two constraints on bonding_curve.
InitializeBezierLookup_unconstrained(curve, signer) == "Ok"

\* The constraints of InitializeBezierLookup on bonding_curve, in the order
\* they are declared: the curve kind, then the authority.
InitializeBezierLookup_constraints(curve, signer) ==
  IF ~(curve.curve_type = "Bezier") THEN "InvalidCurveType"
  ELSE IF ~(curve.authority = signer) THEN "Unauthorized"
  ELSE "Ok"

\* `space = 8 + 32 + 4 + (8 * 1000) + 1`: the bezier_lookup account has room
\* for MaxPrices prices (1000 in the source).  A longer table does not fit
\* when the account is serialized at the end of the instruction, which
\* then fails.
Serializes(prices) == Len(prices) <= MaxPrices

\* ---- the metaplex variant
metaplex_initialize_curve(authority, base_price, price_increment, max_supply) ==
  Outcome("Ok",
          [NoCurve EXCEPT !.initialized = TRUE, !.authority = authority,
                          !.base_price = base_price,
                          !.price_increment = price_increment,
                          !.max_supply = max_supply],
          0, <<>>, 0, <<>>)

metaplex_mint_edition(curve, failing) ==
  IF ~(curve.current_supply < curve.max_supply)
  THEN Outcome("MaxSupplyReached", curve, 0, <<>>, 0, <<>>)
  ELSE LET current_price == metaplex_price(curve) IN
  IF ~current_price.ok
  THEN Outcome(current_price.err, curve, 0, <<>>, 0, <<>>)
  ELSE IF failing = "transfer"
  THEN Outcome("TransferFailed", curve, current_price.val, <<>>, 0, SubSeq(MetaplexCpis, 1, 1))
  ELSE IF failing = "mint_to"
  THEN Outcome("MintToFailed", curve, current_price.val, <<current_price.val>>, 0,
               SubSeq(MetaplexCpis, 1, 2))
  ELSE IF failing = "create_metadata"
  THEN Outcome("CreateMetadataFailed", curve, current_price.val, <<current_price.val>>, 1,
               SubSeq(MetaplexCpis, 1, 3))
  ELSE IF failing = "create_master_edition"
  THEN Outcome("CreateMasterEditionFailed", curve, current_price.val,
               <<current_price.val>>, 1, MetaplexCpis)
  ELSE LET supply == u32_add(curve.current_supply, 1)
           volume == u64_add(curve.total_volume, current_price.val)
       IN IF ~supply.ok \/ ~volume.ok
          THEN Outcome("Panic", curve, current_price.val, <<current_price.val>>, 1,
                       MetaplexCpis)
          ELSE Outcome("Ok",
                       [curve EXCEPT !.current_supply = supply.val,
                                     !.total_volume = volume.val],
                       current_price.val, <<current_price.val>>, 1, MetaplexCpis)

get_price(curve) ==
  LET price == metaplex_price(curve) IN
  IF ~price.ok THEN Outcome(price.err, curve, 0, <<>>, 0, <<>>)
  ELSE Outcome("Ok", curve, price.val, <<>>, 0, <<>>)

metaplex_close_curve(curve) ==
  IF ~(curve.current_supply = 0)
  THEN Outcome("CurveNotEmpty", curve, 0, <<>>, 0, <<>>)
  ELSE Outcome("Ok", curve, 0, <<>>, 0, <<>>)

\* ---------------------------------------------------------- transactions
\* An instruction that fails account validation never enters its handler.
Rejected(error) == Outcome(error, bonding_curve, 0, <<>>, 0, <<>>)

\* The accounts structs without the authority constraint.
IsAuthority_unchecked(curve, signer) == TRUE

\* `constraint = bonding_curve.authority == authority.key() @ Unauthorized`
\* of UpdateCurve and CloseCurve.
IsAuthority(curve, signer) == curve.authority = signer

\* `close = authority`: a close instruction that returns Ok gives the
\* account back to the system program.
Closing(out) == IF out.result = "Ok" THEN [out EXCEPT !.curve = NoCurve] ELSE out

\* An instruction end that keeps what the CPIs did when the handler fails.
Commit_keeps_cpi_effects(out) ==
  /\ bonding_curve' = IF out.result = "Ok" THEN out.curve ELSE bonding_curve
  /\ paid' = paid \o out.transfers
  /\ issued' = issued + out.issues

\* An instruction end that writes the account back when the handler fails.
Commit_writes_account_on_error(out) ==
  /\ bonding_curve' = out.curve
  /\ IF out.result = "Ok"
     THEN paid' = paid \o out.transfers /\ issued' = issued + out.issues
     ELSE UNCHANGED <<paid, issued>>

\* The end of an instruction.  The account is written back, and the CPIs'
\* transfers and issuances stay, only when the handler returned Ok; an Err
\* or a panic fails the transaction, and the ledger drops all it did.
Commit(out) ==
  IF out.result = "Ok"
  THEN /\ bonding_curve' = out.curve
       /\ paid' = paid \o out.transfers
       /\ issued' = issued + out.issues
  ELSE UNCHANGED <<bonding_curve, paid, issued>>

\* What an instruction hands back to its caller besides success or the
\* error: every handler of both programs returns Result<()>, and none
\* sets return data.
ReturnData(out) == None

Record(op, caller, args, out) ==
  last' = [op |-> op, caller |-> caller, args |-> args, result |-> out.result,
           price |-> out.price, cpis |-> out.cpis, returned |-> ReturnData(out)]

\* The price tables a creator submits: prefixes of one price schedule.
TablePrice(i) == IF i = 1 THEN 500 ELSE IF i <= 3 THEN Half ELSE 700
Tables == { [i \in 1..n |-> TablePrice(i)] : n \in (MaxSupplyBound - 1)..(MaxSupplyBound + 1) }

\* Transaction slots of the runtime.
Txs == 1..NumTxs
NoOutcome == Outcome("none", NoCurve, 0, <<>>, 0, <<>>)
Idle == [pc |-> "idle", curve |-> NoCurve, out |-> NoOutcome]

Init ==
  /\ in_flight = [t \in Txs |-> Idle]
  /\ account_lock = 0
  /\ variant \in {"lib", "metaplex"}
  /\ overflow_checks \in BOOLEAN
  /\ bonding_curve = NoCurve
  /\ bezier_lookup = NoLookup
  /\ paid = <<>>
  /\ issued = 0
  /\ last = [op |-> "none", caller |-> "none", args |-> <<>>, result |-> "Ok",
             price |-> 0, cpis |-> <<>>, returned |-> None]

\* ---- src/lib.rs
\* initialize_curve on arguments drawn from the given sets.
InitializeCurveFrom(curve_types, base_prices, increments, max_supplies) ==
  \E authority \in Signers, curve_type \in curve_types, base_price \in base_prices,
     price_increment \in increments, max_supply \in max_supplies :
   \E bz \in BezierArgs(curve_type) :
    /\ variant = "lib"
    /\ ~bonding_curve.initialized
    /\ LET out == initialize_curve(authority, curve_type, base_price, price_increment,
                                   max_supply, bz[1], bz[2])
       IN /\ Commit(out)
          /\ Record("initialize_curve", authority, <<bz[1], bz[2]>>, out)
    /\ UNCHANGED <<variant, overflow_checks, in_flight, account_lock, bezier_lookup>>

InitializeCurve == InitializeCurveFrom(CurveTypes, BasePrices, Increments, MaxSupplies)

MintEdition ==
  \E failing \in {"none", "transfer", "mint_to"} :
    /\ variant = "lib"
    /\ bonding_curve.initialized
    /\ LET out == mint_edition(bonding_curve, failing)
       IN /\ Commit(out)
          /\ Record("mint_edition", "buyer", <<>>, out)
    /\ UNCHANGED <<variant, overflow_checks, in_flight, account_lock, bezier_lookup>>

UpdateCurve ==
  \E authority \in Signers, new \in UpdateArgs :
    /\ variant = "lib"
    /\ bonding_curve.initialized
    /\ LET out == IF ~IsAuthority(bonding_curve, authority)
                  THEN Rejected("Unauthorized")
                  ELSE update_curve(bonding_curve, new[1], new[2], new[3])
       IN /\ Commit(out)
          /\ Record("update_curve", authority, new, out)
    /\ UNCHANGED <<variant, overflow_checks, in_flight, account_lock, bezier_lookup>>

CloseCurve ==
  \E authority \in Signers :
    /\ variant = "lib"
    /\ bonding_curve.initialized
    /\ LET out == IF ~IsAuthority(bonding_curve, authority)
                  THEN Rejected("Unauthorized")
                  ELSE Closing(close_curve(bonding_curve))
       IN /\ Commit(out)
          /\ Record("close_curve", authority, <<>>, out)
    /\ UNCHANGED <<variant, overflow_checks, in_flight, account_lock, bezier_lookup>>

\* initialize_bezier_lookup on a table drawn from `tables`.  `init` asks
\* for a bezier_lookup account that does not exist yet.
InitializeBezierLookupFrom(tables) ==
  \E authority \in Signers, prices \in tables :
    /\ variant = "lib"
    /\ bonding_curve.initialized
    /\ ~bezier_lookup.initialized
    /\ LET accounts == InitializeBezierLookup_constraints(bonding_curve, authority)
           handler == initialize_bezier_lookup(bonding_curve, prices)
           result == IF accounts # "Ok" THEN accounts
                     ELSE IF handler # "Ok" THEN handler
                     ELSE IF ~Serializes(prices) THEN "AccountDidNotSerialize"
                     ELSE "Ok"
       IN /\ bezier_lookup' = IF result = "Ok"
                              THEN [initialized |-> TRUE, prices |-> prices]
                              ELSE bezier_lookup
          /\ Record("initialize_bezier_lookup", authority, <<Len(prices)>>, Rejected(result))
    /\ UNCHANGED <<variant, overflow_checks, in_flight, account_lock, bonding_curve, paid, issued>>

InitializeBezierLookup == InitializeBezierLookupFrom(Tables)

MintEditionWithBezierLookup ==
  \E failing \in {"none", "transfer", "mint_to"} :
    /\ variant = "lib"
    /\ bonding_curve.initialized
    /\ bezier_lookup.initialized
    /\ LET out == mint_edition_with_bezier_lookup(bonding_curve, bezier_lookup, failing)
       IN /\ Commit(out)
          /\ Record("mint_edition_with_bezier_lookup", "buyer", <<>>, out)
    /\ UNCHANGED <<variant, overflow_checks, in_flight, account_lock, bezier_lookup>>

\* ---- src/lib_with_metaplex.rs
MetaplexInitializeCurve ==
  \E authority \in Signers, base_price \in BasePrices, price_increment \in Increments,
     max_supply \in MaxSupplies :
    /\ variant = "metaplex"
    /\ ~bonding_curve.initialized
    /\ LET out == metaplex_initialize_curve(authority, base_price, price_increment, max_supply)
       IN /\ Commit(out)
          /\ Record("initialize_curve", authority, <<>>, out)
    /\ UNCHANGED <<variant, overflow_checks, in_flight, account_lock, bezier_lookup>>

MetaplexMintEdition ==
  \E failing \in {"none", "transfer", "mint_to", "create_metadata", "create_master_edition"} :
    /\ variant = "metaplex"
    /\ bonding_curve.initialized
    /\ LET out == metaplex_mint_edition(bonding_curve, failing)
       IN /\ Commit(out)
          /\ Record("mint_edition", "buyer", <<>>, out)
    /\ UNCHANGED <<variant, overflow_checks, in_flight, account_lock, bezier_lookup>>

GetPrice ==
  /\ variant = "metaplex"
  /\ bonding_curve.initialized
  /\ LET out == get_price(bonding_curve)
     IN /\ Commit(out)
        /\ Record("get_price", "none", <<>>, out)
  /\ UNCHANGED <<variant, overflow_checks, in_flight, account_lock, bezier_lookup>>

MetaplexCloseCurve ==
  \E authority \in Signers :
    /\ variant = "metaplex"
    /\ bonding_curve.initialized
    /\ LET out == IF ~IsAuthority(bonding_curve, authority)
                  THEN Rejected("Unauthorized")
                  ELSE Closing(metaplex_close_curve(bonding_curve))
       IN /\ Commit(out)
          /\ Record("close_curve", authority, <<>>, out)
    /\ UNCHANGED <<variant, overflow_checks, in_flight, account_lock, bezier_lookup>>

Next ==
  \/ InitializeCurve
  \/ MintEdition
  \/ UpdateCurve
  \/ CloseCurve
  \/ InitializeBezierLookup
  \/ MintEditionWithBezierLookup
  \/ MetaplexInitializeCurve
  \/ MetaplexMintEdition
  \/ GetPrice
  \/ MetaplexCloseCurve

Spec == Init /\ [][Next]_vars

\* ------------------------------------------------------------ properties
RECURSIVE SeqSum(_)
SeqSum(q) == IF q = <<>> THEN 0 ELSE q[1] + SeqSum(Tail(q))

MintOps == {"mint_edition", "mint_edition_with_bezier_lookup"}
Ledger == <<bonding_curve, bezier_lookup, paid, issued>>

\* C1: after k successful mints on a curve, however they were interleaved
\* with failed attempts and update_curve calls, current_supply = k and
\* total_volume is the exact sum of the k prices transferred to the authority.
C1_SupplyAndVolumeMatchPayments ==
  bonding_curve.initialized =>
    /\ bonding_curve.current_supply = Len(paid)
    /\ bonding_curve.total_volume = SeqSum(paid)

\* C2: current_supply <= max_supply in every reachable state of a curve.
C2_SupplyWithinCap ==
  bonding_curve.current_supply <= bonding_curve.max_supply

\* C2 witness: the cap is reached, and the authority's attempt to lower it
\* below the supply was turned down.
C2_CapReachedAndLoweringRefused ==
  /\ bonding_curve.initialized
  /\ bonding_curve.current_supply = bonding_curve.max_supply
  /\ bonding_curve.current_supply >= 2
  /\ last.op = "update_curve"
  /\ last.result = "InvalidMaxSupply"

\* C3 (state part): in every committed state the payments taken, the units
\* issued and the supply counted agree in number, and total_volume holds the
\* payments taken (as a u64).
C3_PaymentsIssuesSupplyAgree ==
  /\ Len(paid) = bonding_curve.current_supply
  /\ issued = bonding_curve.current_supply
  /\ bonding_curve.total_volume = SeqSum(paid) % (U64Max + 1)

\* C3 (step part): a mint attempt whose issuance (or a later step) fails
\* after its transfer went through changes nothing: the payment is undone.
C3_FailedAfterPaymentStep ==
  (/\ last'.op \in MintOps
   /\ last'.result # "Ok"
   /\ Len(last'.cpis) >= 2)
  => UNCHANGED Ledger

\* C3: if token::mint_to fails after the payment of the same attempt
\* succeeded, current_supply and total_volume are unchanged and the payment
\* is reversed; no committed state has a payment without its supply and
\* volume update, or an issued unit without its payment.
C3_MintIsAtomic ==
  []C3_PaymentsIssuesSupplyAgree /\ [][C3_FailedAfterPaymentStep]_vars

\* C3 witness: after a successful mint, an attempt paid a positive price,
\* failed in token::mint_to, and left one payment, one unit, supply 1.
C3_IssuanceFailedAfterPayment ==
  /\ last.op \in MintOps
  /\ last.result = "MintToFailed"
  /\ last.cpis = <<"transfer", "mint_to">>
  /\ last.price > 0
  /\ Len(paid) = 1 /\ issued = 1 /\ bonding_curve.current_supply = 1

\* C4: a mint attempt made when current_supply = max_supply fails with
\* MaxSupplyReached, invokes neither the transfer nor token::mint_to, and
\* leaves every field of the curve (and the ledger) unchanged.
C4_MintAtCapStep ==
  (/\ last'.op \in MintOps
   /\ bonding_curve.initialized
   /\ bonding_curve.current_supply = bonding_curve.max_supply)
  => /\ last'.result = "MaxSupplyReached"
     /\ last'.cpis = <<>>
     /\ UNCHANGED Ledger
C4_MintAtCapFails == [][C4_MintAtCapStep]_vars

\* C4 witness: a table mint was refused at a cap of at least 1, on a curve
\* whose table has no entry for the next edition either.
C4_RefusedAtCap ==
  /\ last.op = "mint_edition_with_bezier_lookup"
  /\ last.result = "MaxSupplyReached"
  /\ bonding_curve.current_supply = bonding_curve.max_supply
  /\ bonding_curve.max_supply >= 1
  /\ Len(bezier_lookup.prices) <= bonding_curve.current_supply

\* C6: update_curve and close_curve by any signer other than the stored
\* authority fail with Unauthorized, whatever the other arguments and the
\* state of the curve, and change nothing.
C6_NonAuthorityStep ==
  (/\ last'.op \in {"update_curve", "close_curve"}
   /\ last'.caller # bonding_curve.authority)
  => /\ last'.result = "Unauthorized"
     /\ UNCHANGED Ledger
C6_OnlyAuthorityGoverns == [][C6_NonAuthorityStep]_vars

\* C6 witness: an outsider's update_curve whose new cap was also below the
\* supply got Unauthorized (not InvalidMaxSupply).
C6_OutsiderWithInvalidCap ==
  /\ last.op = "update_curve"
  /\ last.caller # bonding_curve.authority
  /\ last.result = "Unauthorized"
  /\ last.args[3] # None
  /\ last.args[3][1] < bonding_curve.current_supply

\* C7: on a Linear curve the n-th successful mint quotes and collects
\* base_price + (n - 1) * price_increment, n - 1 being the supply before it,
\* and adds it to total_volume (1000, 1100, 1200 and 3300 for base 1000,
\* increment 100).  Checked on the Linear curves of src/lib.rs.
C7_LinearMintStep ==
  (/\ variant = "lib"
   /\ last'.op = "mint_edition"
   /\ last'.result = "Ok"
   /\ bonding_curve.curve_type = "Linear")
  => LET n == Len(paid) + 1
         price == bonding_curve.base_price + (n - 1) * bonding_curve.price_increment
     IN /\ last'.price = price
        /\ paid' = Append(paid, price)
        /\ bonding_curve'.current_supply = n
        /\ bonding_curve'.total_volume = (bonding_curve.total_volume + price) % (U64Max + 1)
C7_LinearPrice == [][C7_LinearMintStep]_vars

\* C7 witness: the example.  Three mints collected 1000, 1100, 1200, the
\* volume is 3300, and the fourth attempt failed with MaxSupplyReached.
C7_Example ==
  /\ bonding_curve.curve_type = "Linear"
  /\ bonding_curve.base_price = 1000
  /\ bonding_curve.price_increment = 100
  /\ bonding_curve.max_supply = 3
  /\ paid = <<1000, 1100, 1200>>
  /\ bonding_curve.current_supply = 3
  /\ bonding_curve.total_volume = 3300
  /\ last.op = "mint_edition"
  /\ last.result = "MaxSupplyReached"

\* C8: every successful mint is priced at edition index current_supply + 1
\* with current_supply read before the increment: calculate_price at that
\* index on mint_edition, table entry prices[current_supply] (0-based) on
\* mint_edition_with_bezier_lookup.
C8_PreIncrementStep ==
  (/\ variant = "lib"
   /\ last'.op \in MintOps
   /\ last'.result = "Ok")
  => LET n == bonding_curve.current_supply + 1
         quote == IF last'.op = "mint_edition"
                  THEN calculate_price(bonding_curve.curve_type, bonding_curve.base_price,
                                       bonding_curve.price_increment, n,
                                       bonding_curve.bezier_min_price,
                                       bonding_curve.bezier_max_price,
                                       bonding_curve.max_supply).val
                  ELSE bezier_lookup.prices[n]
     IN /\ last'.price = quote
        /\ paid' = Append(paid, quote)
        /\ bonding_curve'.current_supply = n
C8_PricedBeforeIncrement == [][C8_PreIncrementStep]_vars

\* C8 witness: the first table mint paid the first entry where the second
\* entry differs.
C8_FirstTableEntryCharged ==
  /\ last.op = "mint_edition_with_bezier_lookup"
  /\ last.result = "Ok"
  /\ bonding_curve.current_supply = 1
  /\ Len(bezier_lookup.prices) >= 2
  /\ last.price = bezier_lookup.prices[1]
  /\ bezier_lookup.prices[2] # bezier_lookup.prices[1]

\* C9 as stated: close_curve succeeds only for the authority on an empty
\* curve, and then the curve is destroyed; whenever current_supply > 0 it
\* fails with CurveNotEmpty and the curve stays as it was.
C9_CloseStepAsStated ==
  (last'.op = "close_curve")
  => /\ (last'.result = "Ok" =>
           /\ last'.caller = bonding_curve.authority
           /\ bonding_curve.current_supply = 0
           /\ bonding_curve' = NoCurve)
     /\ (bonding_curve.current_supply > 0 =>
           /\ last'.result = "CurveNotEmpty"
           /\ UNCHANGED Ledger)
C9_CloseAsStated == [][C9_CloseStepAsStated]_vars

\* C9 (amended): close_curve succeeds only for the authority on an empty
\* curve, and then the curve is destroyed; whenever current_supply > 0 it
\* fails, with CurveNotEmpty for the authority and with Unauthorized for any
\* other signer, and the curve stays as it was.
C9_CloseStep ==
  (last'.op = "close_curve")
  => /\ (last'.result = "Ok" =>
           /\ last'.caller = bonding_curve.authority
           /\ bonding_curve.current_supply = 0
           /\ bonding_curve' = NoCurve)
     /\ (bonding_curve.current_supply > 0 =>
           /\ last'.result = IF last'.caller = bonding_curve.authority
                             THEN "CurveNotEmpty" ELSE "Unauthorized"
           /\ UNCHANGED Ledger)
C9_CloseOnlyWhenEmpty == [][C9_CloseStep]_vars

\* C9 witness: the authority's close_curve on a curve with editions minted
\* failed with CurveNotEmpty and the curve is still there.
C9_AuthorityRefusedOnNonEmpty ==
  /\ last.op = "close_curve"
  /\ last.caller = bonding_curve.authority
  /\ last.result = "CurveNotEmpty"
  /\ bonding_curve.initialized
  /\ bonding_curve.current_supply > 0

\* C10: update_curve by the authority with a new max_supply below
\* current_supply fails with InvalidMaxSupply and leaves the whole curve
\* unchanged, base_price and price_increment included when new values for
\* them came in the same call.
C10_InvalidCapStep ==
  (/\ last'.op = "update_curve"
   /\ last'.caller = bonding_curve.authority
   /\ last'.args[3] # None
   /\ last'.args[3][1] < bonding_curve.current_supply)
  => /\ last'.result = "InvalidMaxSupply"
     /\ UNCHANGED Ledger
C10_InvalidCapChangesNothing == [][C10_InvalidCapStep]_vars

\* C10 witness: the refused call also carried a base_price and a
\* price_increment that differ from the stored ones.
C10_RefusedWithNewPrices ==
  /\ last.op = "update_curve"
  /\ last.result = "InvalidMaxSupply"
  /\ last.args[1] # None /\ last.args[1][1] # bonding_curve.base_price
  /\ last.args[2] # None /\ last.args[2][1] # bonding_curve.price_increment

\* C11: a successful update_curve changes only those of base_price,
\* price_increment and max_supply for which a value was supplied, to that
\* value; every other field of the curve, the table and the ledger stay as
\* they were.  curve_type of an existing curve changes under no operation.
C11_UpdateFrameStep ==
  /\ (last'.op = "update_curve" /\ last'.result = "Ok")
     => /\ bonding_curve' =
             [bonding_curve EXCEPT
                !.base_price = unwrap_or(last'.args[1], bonding_curve.base_price),
                !.price_increment = unwrap_or(last'.args[2], bonding_curve.price_increment),
                !.max_supply = unwrap_or(last'.args[3], bonding_curve.max_supply)]
        /\ UNCHANGED <<bezier_lookup, paid, issued>>
  /\ (last'.op = "update_curve")
     => /\ bonding_curve'.curve_type = bonding_curve.curve_type
        /\ bonding_curve'.authority = bonding_curve.authority
        /\ bonding_curve'.current_supply = bonding_curve.current_supply
        /\ bonding_curve'.total_volume = bonding_curve.total_volume
  /\ (bonding_curve.initialized /\ bonding_curve'.initialized)
     => bonding_curve'.curve_type = bonding_curve.curve_type
C11_UpdateChangesOnlySupplied == [][C11_UpdateFrameStep]_vars

\* C11 witness: on a curve with editions sold, an update that supplied only
\* a price_increment went through; base_price and max_supply still hold
\* values that no update_curve argument carries together.
C11_OnlyIncrementUpdated ==
  /\ last.op = "update_curve"
  /\ last.result = "Ok"
  /\ last.args = <<None, Some(100), None>>
  /\ bonding_curve.price_increment = 100
  /\ bonding_curve.base_price = Half
  /\ bonding_curve.max_supply = MaxSupplyBound
  /\ bonding_curve.curve_type = "Exponential"
  /\ bonding_curve.current_supply >= 1
  /\ bonding_curve.total_volume > 0

\* C14: initialize_bezier_lookup is rejected and creates no table whenever
\* the curve is not of kind Bezier (InvalidCurveType) or the caller is not
\* the curve's authority (Unauthorized), whatever the table submitted.
C14_LookupRejectedStep ==
  (/\ last'.op = "initialize_bezier_lookup"
   /\ \/ bonding_curve.curve_type # "Bezier"
      \/ last'.caller # bonding_curve.authority)
  => /\ last'.result = IF bonding_curve.curve_type # "Bezier"
                       THEN "InvalidCurveType" ELSE "Unauthorized"
     /\ ~bezier_lookup'.initialized
     /\ UNCHANGED Ledger
C14_LookupOnlyByAuthorityOnBezier == [][C14_LookupRejectedStep]_vars

\* C14 witness: on a Bezier curve, a table that fits the cap was turned
\* down because an outsider submitted it; no table exists.
C14_OutsiderTableRefused ==
  /\ last.op = "initialize_bezier_lookup"
  /\ last.result = "Unauthorized"
  /\ last.caller # bonding_curve.authority
  /\ bonding_curve.curve_type = "Bezier"
  /\ last.args[1] <= bonding_curve.max_supply
  /\ ~bezier_lookup.initialized

\* C15: every successful mint against a Bezier curve that has a lookup
\* table charges the table's price for that edition, prices[current_supply]
\* (0-based) with current_supply read before the increment; calculate_price
\* prices the analytic kinds only.
C15_TableMintStep ==
  (/\ variant = "lib"
   /\ last'.op \in MintOps
   /\ last'.result = "Ok"
   /\ bonding_curve.curve_type = "Bezier"
   /\ bezier_lookup.initialized)
  => /\ last'.op = "mint_edition_with_bezier_lookup"
     /\ bonding_curve.current_supply + 1 \in DOMAIN bezier_lookup.prices
     /\ last'.price = bezier_lookup.prices[bonding_curve.current_supply + 1]
     /\ paid' = Append(paid, bezier_lookup.prices[bonding_curve.current_supply + 1])
C15_TablePriceCharged == [][C15_TableMintStep]_vars

\* C16: whenever a lookup table exists, it holds at most max_supply prices
\* of its curve, also after update_curve has changed max_supply.
C16_TableWithinCap ==
  (bezier_lookup.initialized /\ bonding_curve.initialized)
  => Len(bezier_lookup.prices) <= bonding_curve.max_supply

\* C17: initialize_curve with a bezier_max_price below the bezier_min_price
\* returns an error and creates no curve.
C17_InconsistentCreateStep ==
  (/\ variant = "lib"
   /\ last'.op = "initialize_curve"
   /\ last'.args[1] # None
   /\ last'.args[2] # None
   /\ last'.args[2][1] < last'.args[1][1])
  => /\ last'.result # "Ok"
     /\ ~bonding_curve'.initialized
C17_InconsistentCurveRejected == [][C17_InconsistentCreateStep]_vars

\* C18: get_price changes no field of the curve (nor anything else), and
\* the price it returns is the price the next mint_edition charges when
\* nothing happens in between.
C18_GetPriceStep ==
  (last'.op = "get_price")
  => /\ UNCHANGED Ledger
     /\ (last'.result = "Ok" /\ bonding_curve.current_supply < bonding_curve.max_supply)
        => last'.returned = Some(metaplex_mint_edition(bonding_curve, "none").price)
C18_GetPriceQuotesNextMint == [][C18_GetPriceStep]_vars

\* C19: a mint whose price evaluation or whose addition to total_volume
\* does not fit a u64 fails with ArithmeticOverflow (unless a CPI failed
\* first) and changes nothing; a mint that succeeds charges the exact price
\* and adds it to total_volume exactly, never a wrapped or truncated value.
\* (For the three kinds priced without subtraction or division by
\* max_supply, calculate_price fails only by overflow.)
C19_OverflowStep ==
  /\ (/\ variant = "lib"
      /\ last'.op = "mint_edition"
      /\ bonding_curve.curve_type # "Bezier"
      /\ bonding_curve.current_supply < bonding_curve.max_supply)
     => LET quote == calculate_price(bonding_curve.curve_type, bonding_curve.base_price,
                                     bonding_curve.price_increment,
                                     bonding_curve.current_supply + 1,
                                     bonding_curve.bezier_min_price,
                                     bonding_curve.bezier_max_price,
                                     bonding_curve.max_supply)
        IN /\ ~quote.ok
              => last'.result = "ArithmeticOverflow" /\ UNCHANGED Ledger
           /\ (quote.ok /\ bonding_curve.total_volume + quote.val > U64Max)
              => /\ last'.result \in {"ArithmeticOverflow", "TransferFailed", "MintToFailed"}
                 /\ UNCHANGED Ledger
  /\ (last'.op \in MintOps /\ last'.result = "Ok")
     => /\ bonding_curve'.total_volume = bonding_curve.total_volume + last'.price
        /\ variant = "metaplex"
           => last'.price = bonding_curve.base_price
                             + bonding_curve.current_supply * bonding_curve.price_increment
C19_OverflowFailsTheMint == [][C19_OverflowStep]_vars

\* C20: mint_edition_with_bezier_lookup fails with PriceNotFound whenever
\* current_supply, the 0-based index of the edition about to be minted, is
\* outside the stored prices although current_supply < max_supply; it then
\* invokes no transfer and no issuance, and leaves current_supply,
\* total_volume and everything else as they were.
C20_OutsideTableStep ==
  (/\ last'.op = "mint_edition_with_bezier_lookup"
   /\ bonding_curve.current_supply < bonding_curve.max_supply
   /\ bonding_curve.current_supply >= Len(bezier_lookup.prices))
  => /\ last'.result = "PriceNotFound"
     /\ last'.cpis = <<>>
     /\ last'.price = 0
     /\ UNCHANGED Ledger
C20_NoPriceNoMint == [][C20_OutsideTableStep]_vars

\* C20 witness: every price of a table shorter than the cap was used by
\* a mint, and the next attempt failed with PriceNotFound below the cap.
C20_TableExhaustedBelowCap ==
  /\ last.op = "mint_edition_with_bezier_lookup"
  /\ last.result = "PriceNotFound"
  /\ bonding_curve.curve_type = "Bezier"
  /\ bonding_curve.current_supply = Len(bezier_lookup.prices)
  /\ bonding_curve.current_supply >= 1
  /\ bonding_curve.current_supply < bonding_curve.max_supply
  /\ Len(paid) = bonding_curve.current_supply
  /\ issued = bonding_curve.current_supply

\* C21: a lookup table exists only for a curve of kind Bezier, so
\* mint_edition_with_bezier_lookup succeeds only against a Bezier curve,
\* also after the curve was closed and a new one created for the collection.
C21_TableStep ==
  (last'.op = "mint_edition_with_bezier_lookup" /\ last'.result = "Ok")
  => bonding_curve.curve_type = "Bezier"
C21_TableOnBezierState ==
  (bezier_lookup.initialized /\ bonding_curve.initialized)
  => bonding_curve.curve_type = "Bezier"
C21_TableOnlyForBezier == []C21_TableOnBezierState /\ [][C21_TableStep]_vars

\* C23: in the metaplex variant, mint_edition and get_price compute
\* base_price + current_supply * price_increment exactly, for every u64
\* base_price and price_increment, and fail with ArithmeticOverflow only
\* when that value does not fit a u64.
C23_MetaplexPriceStep ==
  (/\ variant = "metaplex"
   /\ last'.op \in {"mint_edition", "get_price"}
   /\ last'.op = "mint_edition" => bonding_curve.current_supply < bonding_curve.max_supply)
  => LET exact == bonding_curve.base_price
                  + bonding_curve.current_supply * bonding_curve.price_increment
     IN /\ last'.result = "ArithmeticOverflow" => exact > U64Max
        /\ last'.result # "ArithmeticOverflow"
           => /\ exact <= U64Max
              /\ last'.price = exact
C23_MetaplexPriceExact == [][C23_MetaplexPriceStep]_vars

\* C25: current_supply and total_volume of a curve never decrease, so once
\* a curve has had a successful mint every close_curve on it fails with
\* CurveNotEmpty and the curve is never destroyed.
C25_NoDecreaseStep ==
  bonding_curve.initialized
  => /\ bonding_curve'.initialized
        => /\ bonding_curve'.current_supply >= bonding_curve.current_supply
           /\ bonding_curve'.total_volume >= bonding_curve.total_volume
     /\ bonding_curve.current_supply >= 1
        => /\ bonding_curve'.initialized
           /\ last'.op = "close_curve"
              => last'.result = "CurveNotEmpty" /\ UNCHANGED Ledger
C25_NeverDecreasesNeverCloses == [][C25_NoDecreaseStep]_vars

\* ------------------------------------------------- concurrent mints
\* MintEdition declares bonding_curve `mut`: the runtime takes the
\* account's write lock for the whole transaction, so a transaction is
\* scheduled only while no other one holds it.
WriteLockFree_shared(t) == TRUE

WriteLockFree(t) == account_lock = 0

\* The runtime schedules a mint_edition transaction: it locks the account
\* and Account<BondingCurve> deserializes it for the handler.
TxLoad(t) ==
  /\ in_flight[t].pc = "idle"
  /\ bonding_curve.initialized
  /\ WriteLockFree(t)
  /\ account_lock' = t
  /\ in_flight' = [in_flight EXCEPT ![t] = [pc |-> "loaded", curve |-> bonding_curve,
                                            out |-> NoOutcome]]
  /\ UNCHANGED <<variant, overflow_checks, bonding_curve, bezier_lookup, paid, issued, last>>

\* The handler runs on the deserialized account.
TxExecute(t) ==
  \E failing \in {"none", "transfer", "mint_to"} :
    /\ in_flight[t].pc = "loaded"
    /\ in_flight' = [in_flight EXCEPT ![t].pc = "executed",
                                      ![t].out = mint_edition(in_flight[t].curve, failing)]
    /\ UNCHANGED <<variant, overflow_checks, bonding_curve, bezier_lookup, paid, issued,
                   last, account_lock>>

\* The transaction ends: the account is written back on Ok, and unlocked.
TxCommit(t) ==
  /\ in_flight[t].pc = "executed"
  /\ Commit(in_flight[t].out)
  /\ Record("mint_edition", "buyer", <<>>, in_flight[t].out)
  /\ in_flight' = [in_flight EXCEPT ![t] = Idle]
  /\ account_lock' = 0
  /\ UNCHANGED <<variant, overflow_checks, bezier_lookup>>

InitConcurrent == Init /\ variant = "lib"

NextConcurrent ==
  \/ InitializeCurve
  \/ \E t \in Txs : TxLoad(t)
  \/ \E t \in Txs : TxExecute(t)
  \/ \E t \in Txs : TxCommit(t)

SpecConcurrent == InitConcurrent /\ [][NextConcurrent]_vars

\* C5 (step part): a mint transaction that ends Ok was priced at the
\* edition after the supply committed at that moment, and moves the
\* committed supply up by exactly one and the payments by its own price.
C5_CommitStep ==
  \A t \in Txs :
    (/\ in_flight[t].pc = "executed"
     /\ in_flight'[t].pc = "idle"
     /\ in_flight[t].out.result = "Ok")
    => /\ in_flight[t].curve.current_supply = bonding_curve.current_supply
       /\ bonding_curve'.current_supply = bonding_curve.current_supply + 1
       /\ paid' = Append(paid, in_flight[t].out.price)

\* C5 (state part): no two transactions hold a copy of the account at the
\* same time, and every payment taken is counted once in current_supply.
C5_OneWriter ==
  /\ \A t1, t2 \in Txs :
       (in_flight[t1].pc # "idle" /\ in_flight[t2].pc # "idle") => t1 = t2
  /\ Len(paid) = bonding_curve.current_supply

\* C5: two concurrent mint attempts on one curve never both observe the
\* same current_supply and both succeed: successful mints are priced at
\* consecutive edition indices and each increments current_supply once.
C5_MintsSerialized == []C5_OneWriter /\ [][C5_CommitStep]_vars

\* C5 witness: two mints went through at different prices and a third
\* transaction was scheduled behind them and has run its handler.
C5_TwoMintsThenAnother ==
  /\ Len(paid) = 2
  /\ paid[1] # paid[2]
  /\ bonding_curve.current_supply = 2
  /\ \E t \in Txs : in_flight[t].pc = "executed" /\ in_flight[t].curve.current_supply = 2

\* ------------------------------------------------ the price function
\* calculate_price on its own: the curve is any one initialize_curve can
\* create, and the function is applied to it at one edition after another,
\* edition 0 (which no mint asks for) included.
Editions == 0..MaxEdition
PriceBasePrices == {0, 1000, Half, U64Max}
PriceIncrements == {0, 1, 100, BasisPoints, U64Max}
PriceMaxSupplies == {0, 1, MaxSupplyBound, MaxEdition}
PriceBezierArgs(curve_type) ==
  IF curve_type = "Bezier"
  THEN BezierArgs(curve_type) \cup { <<Some(0), Some(U64Max)>> }
  ELSE BezierArgs(curve_type)

PriceCurves ==
  UNION { { initialize_curve("alice", curve_type, base_price, price_increment, max_supply,
                             bz[1], bz[2]).curve : bz \in PriceBezierArgs(curve_type) } :
          curve_type \in CurveTypes, base_price \in PriceBasePrices,
          price_increment \in PriceIncrements, max_supply \in PriceMaxSupplies }

InitPrice ==
  /\ in_flight = [t \in Txs |-> Idle]
  /\ account_lock = 0
  /\ variant = "lib"
  /\ overflow_checks \in BOOLEAN
  /\ bonding_curve \in PriceCurves
  /\ bezier_lookup = NoLookup
  /\ paid = <<>>
  /\ issued = 0
  /\ last = [op |-> "none", caller |-> "none", args |-> <<>>, result |-> "Ok",
             price |-> 0, cpis |-> <<>>, returned |-> None]

CalculatePrice ==
  \E edition \in Editions :
    /\ LET price == calculate_price(bonding_curve.curve_type, bonding_curve.base_price,
                                    bonding_curve.price_increment, edition,
                                    bonding_curve.bezier_min_price,
                                    bonding_curve.bezier_max_price, bonding_curve.max_supply)
       IN last' = [op |-> "calculate_price", caller |-> "none", args |-> <<edition>>,
                   result |-> price.err, price |-> price.val, cpis |-> <<>>,
                   returned |-> IF price.ok THEN Some(price.val) ELSE None]
    /\ UNCHANGED <<variant, overflow_checks, bonding_curve, bezier_lookup, paid, issued,
                   in_flight, account_lock>>

NextPrice == CalculatePrice

SpecPrice == InitPrice /\ [][NextPrice]_vars

\* C12: for each analytic kind (Linear, Exponential, Logarithmic, and the
\* interpolated Bezier, which evaluates only with ceiling >= floor) and fixed
\* parameters, the price is non-decreasing in the edition index: of two
\* evaluations that succeed on one curve at edition indices of 1 or more,
\* the one at the lower index gives the lower or equal price.
C12_MonotoneStep ==
  (/\ last.op = "calculate_price" /\ last.result = "Ok"
   /\ last'.op = "calculate_price" /\ last'.result = "Ok"
   /\ last.args[1] >= 1 /\ last'.args[1] >= 1)
  => /\ (last.args[1] < last'.args[1] => last.price <= last'.price)
     /\ (last.args[1] > last'.args[1] => last.price >= last'.price)
C12_PriceMonotone == [][C12_MonotoneStep]_vars

\* C12 witness: an Exponential curve at 100% growth per edition gave 3000
\* at edition 3, above the 2000 it gives at edition 2.
C12_ExponentialRises ==
  /\ last.op = "calculate_price"
  /\ last.result = "Ok"
  /\ last.args = <<3>>
  /\ bonding_curve.curve_type = "Exponential"
  /\ bonding_curve.base_price = 1000
  /\ bonding_curve.price_increment = BasisPoints
  /\ last.price = 3000
  /\ calculate_price("Exponential", 1000, BasisPoints, 2, 1000, 1000, bonding_curve.max_supply).val = 2000

\* ---------------------------------------------- the table's length
\* initialize_bezier_lookup on its own: curves with every cap from 0 to
\* above the room of the account, and tables of every length up to one more.
LookupMaxSupplies == 0..(MaxPrices + 2)
LookupTables == { [i \in 1..n |-> TablePrice(i)] : n \in 0..(MaxPrices + 3) }

InitLookup == Init /\ variant = "lib"

LookupInitializeCurve ==
  InitializeCurveFrom({"Linear", "Bezier"}, {1000}, {100}, LookupMaxSupplies)

LookupInitializeBezierLookup == InitializeBezierLookupFrom(LookupTables)

NextLookup ==
  \/ LookupInitializeCurve
  \/ LookupInitializeBezierLookup
  \/ CloseCurve

SpecLookup == InitLookup /\ [][NextLookup]_vars

\* C13 as stated: on every Bezier curve, whatever its max_supply, the
\* authority's initialize_bezier_lookup fails with InvalidPriceLookup for a
\* table of max_supply + 1 prices and succeeds, storing the table, for one
\* of max_supply prices.
C13_LookupBoundStepAsStated ==
  (/\ last'.op = "initialize_bezier_lookup"
   /\ bonding_curve.curve_type = "Bezier"
   /\ last'.caller = bonding_curve.authority)
  => /\ (last'.args[1] = bonding_curve.max_supply + 1
         => last'.result = "InvalidPriceLookup" /\ UNCHANGED Ledger)
     /\ (last'.args[1] = bonding_curve.max_supply
         => /\ last'.result = "Ok"
            /\ bezier_lookup'.initialized
            /\ Len(bezier_lookup'.prices) = bonding_curve.max_supply)
C13_LookupBoundStep ==
  (/\ last'.op = "initialize_bezier_lookup"
   /\ bonding_curve.curve_type = "Bezier"
   /\ last'.caller = bonding_curve.authority)
  => /\ (last'.args[1] = bonding_curve.max_supply + 1
         => last'.result = "InvalidPriceLookup" /\ UNCHANGED Ledger)
     /\ (last'.args[1] = bonding_curve.max_supply /\ bonding_curve.max_supply <= MaxPrices
         => /\ last'.result = "Ok"
            /\ bezier_lookup'.initialized
            /\ Len(bezier_lookup'.prices) = bonding_curve.max_supply)
     /\ (last'.args[1] = bonding_curve.max_supply /\ bonding_curve.max_supply > MaxPrices
         => /\ last'.result = "AccountDidNotSerialize"
            /\ UNCHANGED Ledger)
C22_DomainStep ==
  (/\ last'.op = "calculate_price"
   /\ \/ last'.args[1] = 0
      \/ bonding_curve.curve_type = "Bezier" /\ bonding_curve.max_supply = 0)
  => last'.result \notin {"Ok", "Panic", "ArithmeticOverflow"}
C24_BezierStepAsStated ==
  (/\ last'.op = "calculate_price"
   /\ bonding_curve.curve_type = "Bezier"
   /\ bonding_curve.bezier_min_price <= bonding_curve.bezier_max_price
   /\ bonding_curve.max_supply >= 1
   /\ last'.args[1] \in 1..bonding_curve.max_supply)
  => LET edition == last'.args[1]
         floor == bonding_curve.bezier_min_price
         ceiling == bonding_curve.bezier_max_price
         progress == (edition * BasisPoints) \div bonding_curve.max_supply
     IN /\ last'.result = "Ok"
        /\ last'.price = floor + ((ceiling - floor) * progress) \div BasisPoints
        /\ floor <= last'.price /\ last'.price <= ceiling
        /\ edition = bonding_curve.max_supply => last'.price = ceiling
C24_BezierPriceAsStated == [][C24_BezierStepAsStated]_vars

\* C24 (amended): the same, whenever the product (max - min) * progress
\* fits a u64; when it does not, the evaluation aborts and gives no price.
C24_BezierStep ==
  (/\ last'.op = "calculate_price"
   /\ bonding_curve.curve_type = "Bezier"
   /\ bonding_curve.bezier_min_price <= bonding_curve.bezier_max_price
   /\ bonding_curve.max_supply >= 1
   /\ last'.args[1] \in 1..bonding_curve.max_supply)
  => LET edition == last'.args[1]
         floor == bonding_curve.bezier_min_price
         ceiling == bonding_curve.bezier_max_price
         progress == (edition * BasisPoints) \div bonding_curve.max_supply
     IN IF progress = 0 \/ ceiling - floor <= U64Max \div progress
        THEN /\ last'.result = "Ok"
             /\ last'.price = floor + ((ceiling - floor) * progress) \div BasisPoints
             /\ floor <= last'.price /\ last'.price <= ceiling
             /\ edition = bonding_curve.max_supply => last'.price = ceiling
        ELSE last'.result = "Panic"
C24_BezierPrice == [][C24_BezierStep]_vars

\* C24 witness: on a curve from 1000 to 1100 over MaxSupplyBound editions,
\* the last edition costs the ceiling, the first one a price strictly
\* between floor and ceiling.
C24_CeilingAtLastEdition ==
  /\ last.op = "calculate_price"
  /\ last.result = "Ok"
  /\ bonding_curve.curve_type = "Bezier"
  /\ bonding_curve.bezier_min_price = 1000
  /\ bonding_curve.bezier_max_price = 1100
  /\ bonding_curve.max_supply = MaxSupplyBound
  /\ last.args = <<MaxSupplyBound>>
  /\ last.price = 1100
  /\ LET first == calculate_price("Bezier", bonding_curve.base_price,
                                   bonding_curve.price_increment, 1, 1000, 1100,
                                   MaxSupplyBound)
     IN first.ok /\ 1000 < first.val /\ first.val < 1100

====
